---- MODULE Spec2Model ----
(***************************************************************************)
(* ThunderData: the pipeline engine (src/src/core/pipeline.py and          *)
(* src/src/core/parallel.py) with validators and transformers of the       *)
(* repository plugged in.                                                  *)
(*                                                                         *)
(* A table is [columns |-> set of column names, rows |-> sequence of       *)
(* rows], a row being a function from the columns to cell values.  Cells   *)
(* are integers; NA stands for pandas' NaN.                                *)
(***************************************************************************)
EXTENDS Integers, Sequences, FiniteSets, TLC

\* ------------------------------------------------------------------ bounds
MaxRows == 2
MaxValidators == 3
MaxTransformers == 2
MaxCalls == 2
MaxJobs == 2
\* the head of ParallelPipeline.process alone is run on longer tables
MaxLen == 6
MaxWorkers == 4
\* the feature engineering transformers are run on tables of up to
\* MaxFeatureRows rows, with up to MaxOps operations and windows up to MaxWindow
MaxFeatureRows == 4
MaxOps == 2
MaxWindow == 2
\* the validators are run on tables of up to MaxQualityRows rows
MaxQualityRows == 3
\* DataProcessor loads tables of up to MaxTextRows rows and is configured
\* with up to MaxConfig transformations
MaxTextRows == 2
MaxConfig == 2
\* the label encoder is run on tables of up to MaxEncoderRows rows
MaxEncoderRows == 3

\* ------------------------------------------------------------ cell values
NA == -1
\* Python's None: no last_run yet, no chunk_size given
None == 0
\* "Minimum chunk size" of ParallelPipeline.process
MinChunkSize == 1000

Values == {NA, 1, 2}

RECURSIVE SeqsUpTo(_, _)
SeqsUpTo(S, n) ==
    IF n = 0 THEN {<<>>}
    ELSE LET shorter == SeqsUpTo(S, n - 1)
         IN  shorter \cup {Append(s, x) : s \in {t \in shorter : Len(t) = n - 1}, x \in S}

Range(s) == {s[i] : i \in DOMAIN s}

\* The tables a caller passes in: a column "value", with or without a
\* constant column "score" of 2s.
InputTables ==
    {[columns |-> {"value"}, rows |-> [i \in DOMAIN vs |-> [value |-> vs[i]]]]
        : vs \in SeqsUpTo(Values, MaxRows)}
    \cup
    {[columns |-> {"value", "score"},
      rows |-> [i \in DOMAIN vs |-> [value |-> vs[i], score |-> 2]]]
        : vs \in SeqsUpTo(Values, MaxRows)}

\* ------------------------------------------------------------- validators
\* The validator objects a caller registers, named by their class.
VCols == "ColumnExistenceValidator"
VRange == "ValueRangeValidator"
Validators == {VCols, VRange}

\* ColumnExistenceValidator(required_columns=['value', 'score']).validate
ColumnExistenceValidate(t) == \A col \in {"value", "score"} : col \in t.columns

\* pandas Series.min()/max() skip NaN and give NaN when nothing is left; a
\* comparison with NaN is False.
ColumnMinBelow(t, column, bound) ==
    \E i \in DOMAIN t.rows : t.rows[i][column] # NA /\ t.rows[i][column] < bound

ColumnMaxAbove(t, column, bound) ==
    \E i \in DOMAIN t.rows : t.rows[i][column] # NA /\ t.rows[i][column] > bound

\* ValueRangeValidator({'value': {'min': 1, 'max': 1}}).validate
ValueRangeValidate(t) ==
    IF "value" \notin t.columns THEN FALSE
    ELSE IF ColumnMinBelow(t, "value", 1) THEN FALSE
    ELSE IF ColumnMaxAbove(t, "value", 1) THEN FALSE
    ELSE TRUE

\* validator.validate(data), dispatched on the object
Validate(v, t) ==
    IF v = VCols THEN ColumnExistenceValidate(t) ELSE ValueRangeValidate(t)

\* (mutant) validate cleans the frame it is given: data.dropna(inplace=True)
ValidateDropsNA(v, t) ==
    [t EXCEPT !.rows = SelectSeq(t.rows, LAMBDA r : \A c \in t.columns : r[c] # NA)]

\* The frame validate was given, after the call: the validators read their
\* argument (data.columns, data[column].min(), ...) and assign nothing.
ValidateLeaves(v, t) == t

\* ----------------------------------------------------------- transformers
\* The transformer objects a caller registers, named by their class.
TDropNA == "DropNATransformer"
TInteract == "FeatureEngineeringTransformer"
Transformers == {TDropNA, TInteract}

\* The class name of a registered object: obj.__class__.__name__
ClassName(obj) == obj

Ok(t) == [ok |-> TRUE, table |-> t]
Raise(type, msg) == [ok |-> FALSE, error |-> [type |-> type, msg |-> msg]]

\* DataFrame.dropna(subset=...): a KeyError for a column that is absent,
\* otherwise the rows with no NA in the subset, in order.
DropNA(t, subset) ==
    IF ~(subset \subseteq t.columns) THEN
        Raise("KeyError", <<CHOOSE c \in subset : c \notin t.columns>>)
    ELSE Ok([t EXCEPT !.rows = SelectSeq(t.rows, LAMBDA r : \A c \in subset : r[c] # NA)])

\* DropNATransformer(columns).transform; columns = None drops on any column
DropNATransform(columns, t) ==
    IF columns # {} THEN DropNA(t, columns) ELSE DropNA(t, t.columns)

\* NaN propagates through a product.
Mul(a, b) == IF a = NA \/ b = NA THEN NA ELSE a * b

\* FeatureEngineeringTransformer([{'type': 'interaction',
\*   'columns': ['value', 'score'], 'new_column': 'score'}]).transform
InteractionTransform(t) ==
    IF "value" \notin t.columns THEN Raise("KeyError", <<"value">>)
    ELSE IF "score" \notin t.columns THEN Raise("KeyError", <<"score">>)
    ELSE Ok([t EXCEPT !.rows =
                [i \in DOMAIN t.rows |->
                    [t.rows[i] EXCEPT !.score = Mul(t.rows[i].value, t.rows[i].score)]]])

\* transformer.transform(data), dispatched on the object
Transform(tr, t) ==
    IF tr = TDropNA THEN DropNATransform({}, t) ELSE InteractionTransform(t)

\* (mutant) DataFrame(columns=data.columns): the columns without the rows
CopyColumnsOnly(t) == [columns |-> t.columns, rows |-> <<>>]

\* DataFrame.copy(): a new frame with the same columns and rows
Copy(t) == [columns |-> t.columns, rows |-> [i \in DOMAIN t.rows |-> t.rows[i]]]

\* ----------------------------------------------------- chunks of a table
Min(a, b) == IF a < b THEN a ELSE b
Max(a, b) == IF a > b THEN a ELSE b

\* range(start, stop, step) for step > 0
RECURSIVE PyRange(_, _, _)
PyRange(start, stop, step) ==
    IF start >= stop THEN <<>> ELSE <<start>> \o PyRange(start + step, stop, step)

\* (mutant) data.loc[i:j] on the default index: the end is included
IlocInclusive(t, i, j) == [t EXCEPT !.rows = SubSeq(t.rows, i + 1, Min(j + 1, Len(t.rows)))]

\* data.iloc[i:j]: rows i..j-1 (counted from 0), cut at the end of the table
Iloc(t, i, j) == [t EXCEPT !.rows = SubSeq(t.rows, i + 1, Min(j, Len(t.rows)))]

\* (mutant) the minimum chunk size is 1
ChunkSizeFloorOne(size, nrows, jobs) ==
    IF size = None THEN Max(nrows \div (jobs * 4), 1) ELSE size

\* the chunk size ParallelPipeline.process works with
ChunkSize(chunk_size, nrows, jobs) ==
    IF chunk_size = None THEN Max(nrows \div (jobs * 4), MinChunkSize) ELSE chunk_size

\* chunks = [data.iloc[i:i + chunk_size] for i in range(0, len(data), chunk_size)]
Chunks(t, chunk_size) ==
    LET starts == PyRange(0, Len(t.rows), chunk_size)
    IN  [k \in DOMAIN starts |-> Iloc(t, starts[k], starts[k] + chunk_size)]

\* pd.concat(frames, axis=0): no frame is an error; the columns are the union
\* of the frames' columns, a cell a frame lacks being NaN.
RECURSIVE ConcatRows(_, _)
ConcatRows(frames, columns) ==
    IF frames = <<>> THEN <<>>
    ELSE LET f == Head(frames)
         IN  [i \in DOMAIN f.rows |->
                [c \in columns |-> IF c \in f.columns THEN f.rows[i][c] ELSE NA]]
             \o ConcatRows(Tail(frames), columns)

Concat(frames) ==
    IF frames = <<>> THEN Raise("ValueError", <<"No objects to concatenate">>)
    ELSE LET columns == UNION {frames[k].columns : k \in DOMAIN frames}
         IN  Ok([columns |-> columns, rows |-> ConcatRows(frames, columns)])

\* The validator loop of _process_chunk: the first validator, in list order,
\* that rejects the chunk (0: none).
FirstRejecting(vs, t) ==
    IF \E k \in DOMAIN vs : ~Validate(vs[k], t)
    THEN CHOOSE k \in DOMAIN vs : ~Validate(vs[k], t) /\ \A j \in 1..(k - 1) : Validate(vs[j], t)
    ELSE 0

\* The transformer loop: each transformer on what the one before returned;
\* what a transformer raises ends the loop.
RECURSIVE ApplyAll(_, _)
ApplyAll(trs, t) ==
    IF trs = <<>> THEN Ok(t)
    ELSE LET out == Transform(Head(trs), t)
         IN  IF out.ok THEN ApplyAll(Tail(trs), out.table) ELSE out

\* ParallelPipeline._process_chunk
ProcessChunk(vs, trs, chunk) ==
    LET k == FirstRejecting(vs, chunk)
    IN  IF k # 0
        THEN Raise("ValueError", <<"Data validation failed", ClassName(vs[k])>>)
        ELSE ApplyAll(trs, Copy(chunk))

\* The calls of the transformer loop, each with the frame it is given
RECURSIVE TransformLog(_, _)
TransformLog(trs, t) ==
    IF trs = <<>> THEN <<>>
    ELSE LET out == Transform(Head(trs), t)
         IN  <<[op |-> "transform", obj |-> Head(trs), arg |-> t]>>
             \o (IF out.ok THEN TransformLog(Tail(trs), out.table) ELSE <<>>)

\* (mutant) every validator is run, and the transformers after them, before
\* the rejection is raised
ChunkCallsAll(vs, trs, chunk) ==
    [i \in DOMAIN vs |-> [op |-> "validate", obj |-> vs[i], arg |-> chunk]]
    \o TransformLog(trs, Copy(chunk))

\* The invocations ParallelPipeline._process_chunk makes on a chunk, in
\* order: the validators up to the first that rejects, and when none
\* rejects the transformers up to the first that raises.
ChunkCalls(vs, trs, chunk) ==
    LET k == FirstRejecting(vs, chunk)
        n == IF k # 0 THEN k ELSE Len(vs)
    IN  [i \in 1..n |-> [op |-> "validate", obj |-> vs[i], arg |-> chunk]]
        \o (IF k # 0 THEN <<>> ELSE TransformLog(trs, Copy(chunk)))

\* ------------------------------------------------------------------ state
VARIABLES
    validators,     \* Pipeline.validators
    transformers,   \* Pipeline.transformers
    metadata,       \* Pipeline.metadata
    parallel,       \* the object is a ParallelPipeline
    n_jobs,         \* ParallelPipeline.n_jobs
    now,            \* the clock datetime.now() reads
    pc,             \* where the running process call stands
    data,           \* the caller's table, argument of the running call
    vi,             \* index of the next validator of the loop of process
    ti,             \* index of the next transformer of the loop of process
    processed_data, \* the local of process
    chunk_size,     \* the local of ParallelPipeline.process: the argument,
                    \* then the size the chunks are cut with
    chunks,         \* the local of ParallelPipeline.process, kept as the
                    \* last call cut it
    tasks,          \* the executor's future of each chunk
    ci,             \* index of the next result executor.map hands out
    processed_chunks, \* the results handed out so far
    exc,            \* the exception on its way out of the with block
    \* What is remembered of the calls, for as long as the lists the calls
    \* found stay as they are (a registration forgets it):
    calls,          \* the invocations the last call has made so far
    finished,       \* the chunks of the last call whose worker has
                    \* completed, in the order of completion
    pre,            \* the object as it was when the last call started
    result,         \* what the last call gave its caller
    prev,           \* pre and result of the call before, when the caller
                    \* of Pipeline.process passes the same table again
    \* and of the registrations:
    added_v,        \* the arguments of the add_validator calls so far
    added_t,        \* the arguments of the add_transformer calls so far
    ncalls,         \* process calls made so far
    nreturned,      \* process calls that have returned a table so far
    \* The other components:
    operations,     \* FeatureEngineeringTransformer.operations
    subject,        \* a validator object of src/src/validators, by its class
    verdict,        \* what its validate gave the caller
    self_data,      \* DataProcessor.data
    self_transformers, \* DataProcessor.transformers
    written,        \* what save_results has written since process_data
    backend,        \* ParallelPipeline.backend
    encoders,       \* CategoryEncoderTransformer.encoders, of the registered
                    \* object (0) and of the copy each worker process
                    \* unpickles (k, for chunk k)
    worker_pc       \* where the worker of each chunk stands in transform

vars == <<validators, transformers, metadata, parallel, n_jobs, now, pc, data,
          vi, ti, processed_data, chunk_size, chunks, tasks, ci, processed_chunks,
          exc,
          calls, finished, pre, result, prev, added_v, added_t, ncalls, nreturned,
          operations, subject, verdict,
          self_data, self_transformers, written, backend, encoders, worker_pc>>

\* what the sequential process works on, what the parallel one works on
seq_locals == <<vi, ti, processed_data, calls>>
par_locals == <<chunk_size, chunks, tasks, ci, processed_chunks, exc, finished>>
executor == <<tasks, ci, processed_chunks, exc>>
object == <<parallel, n_jobs>>
history == <<pre, result, prev, ncalls>>
added == <<added_v, added_t>>
encoder == <<backend, encoders, worker_pc>>
quality == <<subject, verdict>>
processor == <<self_data, self_transformers, written>>
\* the state of the components beside the pipeline
components == <<operations, subject, verdict, self_data, self_transformers, written,
                backend, encoders, worker_pc>>

\* A registration starts a new configuration of the pipeline: what was
\* remembered of the calls on the old one is dropped.
Forget ==
    /\ data' = [columns |-> {}, rows |-> <<>>]
    /\ calls' = <<>>
    /\ chunk_size' = None
    /\ chunks' = <<>>
    /\ finished' = <<>>
    /\ pre' = [metadata |-> metadata', validators |-> validators',
               transformers |-> transformers',
               data |-> [columns |-> {}, rows |-> <<>>], chunk_size |-> None]
    /\ result' = [kind |-> "none"]
    /\ prev' = [result |-> [kind |-> "none"]]

\* the object as a call finds it, and the arguments as they are passed
Snapshot == [metadata |-> metadata, validators |-> validators,
             transformers |-> transformers, data |-> data,
             chunk_size |-> chunk_size]

NoTable == [columns |-> {}, rows |-> <<>>]
NoResult == [kind |-> "none"]
NoError == [type |-> "none", msg |-> <<>>]
Returned(t) == [kind |-> "returned", table |-> t]
Raised(e) == [kind |-> "raised", error |-> e]
NoPrev == [result |-> NoResult]
\* no validator object is under test
NoValidator == subject = "none" /\ verdict = NoResult
\* DataProcessor.__init__: self.data = None, self.transformers = []
NoData == [loaded |-> FALSE]
NoProcessor == self_data = NoData /\ self_transformers = <<>> /\ written = NoResult
\* no CategoryEncoderTransformer is registered; backend: str = 'process'
NoEncoder == backend = "process" /\ encoders = <<>> /\ worker_pc = <<>>

\* No pipeline is in use: its lists are empty and no call has been made.
NoPipeline ==
    /\ validators = <<>>
    /\ transformers = <<>>
    /\ metadata = [created_at |-> 1, last_run |-> None, runs |-> 0]
    /\ now = 2
    /\ pc = "idle"
    /\ data = NoTable
    /\ vi = 1
    /\ ti = 1
    /\ processed_data = NoTable
    /\ chunk_size = None
    /\ chunks = <<>>
    /\ tasks = <<>>
    /\ ci = 1
    /\ processed_chunks = <<>>
    /\ exc = NoError
    /\ calls = <<>>
    /\ finished = <<>>
    /\ pre = Snapshot
    /\ result = NoResult
    /\ prev = NoPrev
    /\ added_v = <<>>
    /\ added_t = <<>>
    /\ ncalls = 0
    /\ nreturned = 0

\* What both constructors set up (Pipeline.__init__, reached from
\* ParallelPipeline.__init__ through super().__init__).
InitPipeline ==
    /\ NoPipeline
    /\ operations = <<>>
    /\ NoValidator
    /\ NoProcessor
    /\ NoEncoder

\* Pipeline(name)
Init ==
    /\ InitPipeline
    /\ parallel = FALSE
    /\ n_jobs = 0

\* ParallelPipeline(name, n_jobs): n_jobs as given, or the host's cpu count
InitParallel ==
    /\ InitPipeline
    /\ parallel = TRUE
    /\ \E arg \in {-1} \cup (1..MaxJobs), cpu_count \in 1..MaxJobs :
          n_jobs = IF arg > 0 THEN arg ELSE cpu_count

\* (mutant) a transformer already in the list is not added again
add_transformer_dedup(transformer) ==
    /\ pc = "idle"
    /\ Len(transformers) < MaxTransformers
    /\ transformers' = IF \E i \in DOMAIN transformers : transformers[i] = transformer
                       THEN transformers
                       ELSE Append(transformers, transformer)
    /\ added_t' = Append(added_t, transformer)
    /\ UNCHANGED <<validators, metadata, object, components, now, pc, vi, ti,
                   processed_data, executor, ncalls, added_v, nreturned>>
    /\ Forget

\* Pipeline.add_transformer
add_transformer(transformer) ==
    /\ pc = "idle"
    /\ Len(transformers) < MaxTransformers
    /\ transformers' = Append(transformers, transformer)
    /\ added_t' = Append(added_t, transformer)
    /\ UNCHANGED <<validators, metadata, object, components, now, pc, vi, ti,
                   processed_data, executor, ncalls, added_v, nreturned>>
    /\ Forget

\* (mutant) the validator is put at the head of the list
add_validator_front(validator) ==
    /\ pc = "idle"
    /\ Len(validators) < MaxValidators
    /\ validators' = <<validator>> \o validators
    /\ added_v' = Append(added_v, validator)
    /\ UNCHANGED <<transformers, metadata, object, components, now, pc, vi, ti,
                   processed_data, executor, ncalls, added_t, nreturned>>
    /\ Forget

\* Pipeline.add_validator
add_validator(validator) ==
    /\ pc = "idle"
    /\ Len(validators) < MaxValidators
    /\ validators' = Append(validators, validator)
    /\ added_v' = Append(added_v, validator)
    /\ UNCHANGED <<transformers, metadata, object, components, now, pc, vi, ti,
                   processed_data, executor, ncalls, added_t, nreturned>>
    /\ Forget

\* Pipeline.process is entered with the caller's table.
process_call(d) ==
    /\ ~parallel
    /\ pc = "idle"
    /\ ncalls < MaxCalls
    /\ ncalls' = ncalls + 1
    /\ data' = d
    /\ pc' = "validate"
    /\ vi' = 1
    /\ ti' = 1
    /\ processed_data' = NoTable
    /\ calls' = <<>>
    /\ pre' = [Snapshot EXCEPT !.data = d]
    /\ prev' = IF d = data THEN [result |-> result, pre |-> pre] ELSE NoPrev
    /\ result' = NoResult
    /\ UNCHANGED <<validators, transformers, metadata, object, components, now,
                   par_locals, added, nreturned>>

\* One turn of the validator loop of process, on validator v with the
\* table t: raise when validate gives False.
validate_turn(v, t) ==
    /\ calls' = Append(calls, [op |-> "validate", obj |-> v, arg |-> t])
    /\ data' = ValidateLeaves(v, data)
    /\ IF Validate(v, t)
       THEN /\ vi' = vi + 1
            /\ UNCHANGED <<pc, result>>
       ELSE /\ result' = Raised([type |-> "ValueError",
                                 msg |-> <<"Data validation failed", ClassName(v)>>])
            /\ pc' = "idle"
            /\ vi' = 1
    /\ UNCHANGED <<validators, transformers, metadata, object, components, now,
                   ti, processed_data, par_locals, pre, prev, ncalls, added,
                   nreturned>>

\* (mutant) the validators are taken from the end of the list
process_validate_reversed ==
    /\ pc = "validate"
    /\ vi <= Len(validators)
    /\ validate_turn(validators[Len(validators) + 1 - vi], data)

\* (mutant) the answer of validate is dropped
process_validate_unchecked ==
    /\ pc = "validate"
    /\ vi <= Len(validators)
    /\ calls' = Append(calls, [op |-> "validate", obj |-> validators[vi], arg |-> data])
    /\ vi' = vi + 1
    /\ UNCHANGED <<pc, result, validators, transformers, metadata, object,
                   components, now, data, ti, processed_data, par_locals, pre,
                   prev, ncalls, added, nreturned>>

\* for validator in self.validators: if not validator.validate(data): raise
process_validate ==
    /\ pc = "validate"
    /\ vi <= Len(validators)
    /\ validate_turn(validators[vi], data)

\* The validator loop is over: processed_data = data.copy()
process_copy ==
    /\ pc = "validate"
    /\ vi > Len(validators)
    /\ processed_data' = Copy(data)
    /\ pc' = "transform"
    /\ vi' = 1
    /\ UNCHANGED <<validators, transformers, metadata, object, components, now,
                   data, ti, par_locals, calls, pre, result, prev, ncalls,
                   added, nreturned>>

\* One turn of the transformer loop of process, on transformer tr with the
\* table t; what a transformer raises leaves process as it is.
transform_turn(tr, t) ==
    /\ calls' = Append(calls, [op |-> "transform", obj |-> tr, arg |-> t])
    /\ LET out == Transform(tr, t)
       IN  IF out.ok
           THEN /\ processed_data' = out.table
                /\ ti' = ti + 1
                /\ UNCHANGED <<pc, result>>
           ELSE /\ result' = Raised(out.error)
                /\ pc' = "idle"
                /\ processed_data' = NoTable
                /\ ti' = 1
    /\ UNCHANGED <<validators, transformers, metadata, object, components, now,
                   data, vi, par_locals, pre, prev, ncalls, added, nreturned>>

\* (mutant) every transformer is given the input, not the table so far
process_transform_input ==
    /\ pc = "transform"
    /\ ti <= Len(transformers)
    /\ transform_turn(transformers[ti], data)

\* (mutant) a transformer that raises ends the loop and the table so far is
\* returned
process_transform_partial ==
    /\ pc = "transform"
    /\ ti <= Len(transformers)
    /\ calls' = Append(calls, [op |-> "transform", obj |-> transformers[ti],
                               arg |-> processed_data])
    /\ LET out == Transform(transformers[ti], processed_data)
       IN  IF out.ok
           THEN /\ processed_data' = out.table
                /\ ti' = ti + 1
                /\ UNCHANGED <<pc, result>>
           ELSE /\ result' = Returned(processed_data)
                /\ pc' = "idle"
                /\ processed_data' = NoTable
                /\ ti' = 1
    /\ UNCHANGED <<validators, transformers, metadata, object, components, now,
                   data, vi, par_locals, pre, prev, ncalls, added, nreturned>>

\* for transformer in self.transformers:
\*     processed_data = transformer.transform(processed_data)
process_transform ==
    /\ pc = "transform"
    /\ ti <= Len(transformers)
    /\ transform_turn(transformers[ti], processed_data)

\* The transformer loop is over: the metadata becomes m and the table is
\* returned.
return_with(m) ==
    /\ pc = "transform"
    /\ ti > Len(transformers)
    /\ metadata' = m
    /\ now' = now + 1
    /\ result' = Returned(processed_data)
    /\ nreturned' = nreturned + 1
    /\ pc' = "idle"
    /\ ti' = 1
    /\ processed_data' = NoTable
    /\ UNCHANGED <<validators, transformers, object, components, data, vi,
                   par_locals, calls, pre, prev, ncalls, added>>

\* (mutant) last_run is not written
process_return_no_last_run ==
    return_with([metadata EXCEPT !.runs = metadata.runs + 1])

\* (mutant) runs is set, not counted up
process_return_runs_set ==
    return_with([metadata EXCEPT !.last_run = now, !.runs = 1])

\* self.metadata["last_run"] = datetime.now(); self.metadata["runs"] += 1;
\* return processed_data
process_return ==
    return_with([metadata EXCEPT !.last_run = now, !.runs = metadata.runs + 1])

\* ---------------------------------------------- ParallelPipeline.process
Pending == [state |-> "pending"]
Running == [state |-> "running"]
Cancelled == [state |-> "cancelled"]
Done(out) == [state |-> "done", out |-> out]
\* the same, with the invocations the worker has made
DoneWith(out, log) == [state |-> "done", out |-> out, calls |-> log]

\* ParallelPipeline.process is entered: the chunks are cut and executor.map
\* submits one task per chunk.
parallel_call(d, size) ==
    /\ parallel
    /\ pc = "idle"
    /\ ncalls < MaxCalls
    /\ ncalls' = ncalls + 1
    /\ data' = d
    /\ chunk_size' = ChunkSize(size, Len(d.rows), n_jobs)
    /\ chunks' = Chunks(d, chunk_size')
    /\ tasks' = [k \in DOMAIN chunks' |-> Pending]
    /\ ci' = 1
    /\ processed_chunks' = <<>>
    /\ exc' = NoError
    /\ finished' = <<>>
    /\ pc' = "collect"
    /\ pre' = [Snapshot EXCEPT !.data = d, !.chunk_size = size]
    /\ result' = NoResult
    /\ UNCHANGED <<validators, transformers, metadata, object, components, now,
                   seq_locals, prev, added, nreturned>>

\* A free worker takes the oldest task of the queue.
worker_start(k) ==
    /\ pc \in {"collect", "shutdown"}
    /\ k \in DOMAIN tasks
    /\ tasks[k] = Pending
    /\ \A j \in 1..(k - 1) : tasks[j] # Pending
    /\ Cardinality({j \in DOMAIN tasks : tasks[j] = Running}) < n_jobs
    /\ tasks' = [tasks EXCEPT ![k] = Running]
    /\ UNCHANGED <<validators, transformers, metadata, object, components, now,
                   pc, data, seq_locals, chunk_size, chunks, ci,
                   processed_chunks, exc, finished, history, added, nreturned>>

\* (mutant) the worker counts its chunk in the pipeline's metadata
worker_finish_counting(k) ==
    /\ pc \in {"collect", "shutdown"}
    /\ k \in DOMAIN tasks
    /\ tasks[k] = Running
    /\ tasks' = [tasks EXCEPT ![k] = Done(ProcessChunk(validators, transformers, chunks[k]))]
    /\ finished' = Append(finished, k)
    /\ metadata' = [metadata EXCEPT !.runs = @ + 1]
    /\ UNCHANGED <<validators, transformers, object, components, now,
                   pc, data, seq_locals, chunk_size, chunks, ci,
                   processed_chunks, exc, history, added, nreturned>>

\* The worker has run _process_chunk on its chunk: the future holds the
\* table or the exception.
worker_finish(k) ==
    /\ pc \in {"collect", "shutdown"}
    /\ k \in DOMAIN tasks
    /\ tasks[k] = Running
    /\ tasks' = [tasks EXCEPT ![k] =
                    DoneWith(ProcessChunk(validators, transformers, chunks[k]),
                             ChunkCalls(validators, transformers, chunks[k]))]
    /\ finished' = Append(finished, k)
    /\ UNCHANGED <<validators, transformers, metadata, object, components, now,
                   pc, data, seq_locals, chunk_size, chunks, ci,
                   processed_chunks, exc, history, added, nreturned>>

\* (mutant) the exception of whichever chunk has failed is raised at once
parallel_collect_any_failure ==
    /\ pc = "collect"
    /\ ci <= Len(tasks)
    /\ IF \E k \in DOMAIN tasks : tasks[k].state = "done" /\ ~tasks[k].out.ok
       THEN /\ \E k \in DOMAIN tasks :
                  /\ tasks[k].state = "done"
                  /\ ~tasks[k].out.ok
                  /\ exc' = tasks[k].out.error
            /\ tasks' = [k \in DOMAIN tasks |->
                            IF tasks[k] = Pending THEN Cancelled ELSE tasks[k]]
            /\ pc' = "shutdown"
            /\ UNCHANGED <<processed_chunks, ci>>
       ELSE /\ tasks[ci].state = "done"
            /\ processed_chunks' = Append(processed_chunks, tasks[ci].out.table)
            /\ ci' = ci + 1
            /\ UNCHANGED <<pc, exc, tasks>>
    /\ UNCHANGED <<validators, transformers, metadata, object, components, now,
                   data, seq_locals, chunk_size, chunks, finished, history,
                   added, nreturned>>

\* (mutant) the result of a chunk that failed is left out
parallel_collect_skipping ==
    /\ pc = "collect"
    /\ ci <= Len(tasks)
    /\ tasks[ci].state = "done"
    /\ processed_chunks' = IF tasks[ci].out.ok
                           THEN Append(processed_chunks, tasks[ci].out.table)
                           ELSE processed_chunks
    /\ ci' = ci + 1
    /\ UNCHANGED <<pc, exc, tasks>>
    /\ UNCHANGED <<validators, transformers, metadata, object, components, now,
                   data, seq_locals, chunk_size, chunks, finished, history,
                   added, nreturned>>

\* (mutant) the results are taken as the workers complete (as_completed)
parallel_collect_completed ==
    /\ pc = "collect"
    /\ ci <= Len(tasks)
    /\ ci <= Len(finished)
    /\ LET out == tasks[finished[ci]].out
       IN  IF out.ok
           THEN /\ processed_chunks' = Append(processed_chunks, out.table)
                /\ ci' = ci + 1
                /\ UNCHANGED <<pc, exc, tasks>>
           ELSE /\ exc' = out.error
                /\ tasks' = [k \in DOMAIN tasks |->
                                IF tasks[k] = Pending THEN Cancelled ELSE tasks[k]]
                /\ pc' = "shutdown"
                /\ UNCHANGED <<processed_chunks, ci>>
    /\ UNCHANGED <<validators, transformers, metadata, object, components, now,
                   data, seq_locals, chunk_size, chunks, finished, history,
                   added, nreturned>>

\* list(executor.map(...)) takes the next result, in the order of the
\* chunks; an exception leaves the list, and the futures not started are
\* cancelled.
parallel_collect ==
    /\ pc = "collect"
    /\ ci <= Len(tasks)
    /\ tasks[ci].state = "done"
    /\ IF tasks[ci].out.ok
       THEN /\ processed_chunks' = Append(processed_chunks, tasks[ci].out.table)
            /\ ci' = ci + 1
            /\ UNCHANGED <<pc, exc, tasks>>
       ELSE /\ exc' = tasks[ci].out.error
            /\ tasks' = [k \in DOMAIN tasks |-> IF tasks[k] = Pending THEN Cancelled ELSE tasks[k]]
            /\ pc' = "shutdown"
            /\ UNCHANGED <<processed_chunks, ci>>
    /\ UNCHANGED <<validators, transformers, metadata, object, components, now,
                   data, seq_locals, chunk_size, chunks, finished, history,
                   added, nreturned>>

\* (mutant) last_run is written on the way out, as in a finally block
parallel_raise_stamped ==
    /\ pc = "shutdown"
    /\ \A k \in DOMAIN tasks : tasks[k] # Running
    /\ result' = Raised(exc)
    /\ metadata' = [metadata EXCEPT !.last_run = now]
    /\ pc' = "idle"
    /\ tasks' = <<>>
    /\ ci' = 1
    /\ processed_chunks' = <<>>
    /\ exc' = NoError
    /\ UNCHANGED <<validators, transformers, object, components, now, data,
                   chunk_size, chunks, finished, seq_locals, pre, prev, ncalls,
                   added, nreturned>>

\* (mutant) the caller waits for the result of every future before it
\* raises, also of those that were cancelled in the queue
parallel_raise_joining ==
    /\ pc = "shutdown"
    /\ \A k \in DOMAIN tasks : tasks[k].state = "done"
    /\ result' = Raised(exc)
    /\ pc' = "idle"
    /\ tasks' = <<>>
    /\ ci' = 1
    /\ processed_chunks' = <<>>
    /\ exc' = NoError
    /\ UNCHANGED <<validators, transformers, metadata, object, components, now,
                   data, chunk_size, chunks, finished, seq_locals, pre, prev,
                   ncalls, added, nreturned>>

\* The with block is left on an exception: the executor waits for the
\* running workers, then the exception reaches the caller.
parallel_raise ==
    /\ pc = "shutdown"
    /\ \A k \in DOMAIN tasks : tasks[k] # Running
    /\ result' = Raised(exc)
    /\ pc' = "idle"
    /\ tasks' = <<>>
    /\ ci' = 1
    /\ processed_chunks' = <<>>
    /\ exc' = NoError
    /\ UNCHANGED <<validators, transformers, metadata, object, components, now,
                   data, chunk_size, chunks, finished, seq_locals, pre, prev,
                   ncalls, added, nreturned>>

\* (mutant) chunks_processed counts the chunks of all the runs
parallel_return_chunks_summed ==
    /\ pc = "collect"
    /\ ci > Len(tasks)
    /\ LET out == Concat(processed_chunks)
       IN  IF out.ok
           THEN /\ metadata' = [created_at |-> metadata.created_at,
                                last_run |-> now,
                                runs |-> metadata.runs + 1,
                                chunks_processed |->
                                    IF "chunks_processed" \in DOMAIN metadata
                                    THEN metadata.chunks_processed + Len(chunks)
                                    ELSE Len(chunks)]
                /\ now' = now + 1
                /\ result' = Returned(out.table)
                /\ nreturned' = nreturned + 1
           ELSE /\ result' = Raised(out.error)
                /\ UNCHANGED <<metadata, now, nreturned>>
    /\ pc' = "idle"
    /\ tasks' = <<>>
    /\ ci' = 1
    /\ processed_chunks' = <<>>
    /\ UNCHANGED <<validators, transformers, object, components, data,
                   seq_locals, exc, chunk_size, chunks, finished, pre, prev,
                   ncalls, added>>

\* Every result is in: concatenate, update the metadata and return.
parallel_return ==
    /\ pc = "collect"
    /\ ci > Len(tasks)
    /\ LET out == Concat(processed_chunks)
       IN  IF out.ok
           THEN /\ metadata' = [created_at |-> metadata.created_at,
                                last_run |-> now,
                                runs |-> metadata.runs + 1,
                                chunks_processed |-> Len(chunks)]
                /\ now' = now + 1
                /\ result' = Returned(out.table)
                /\ nreturned' = nreturned + 1
           ELSE /\ result' = Raised(out.error)
                /\ UNCHANGED <<metadata, now, nreturned>>
    /\ pc' = "idle"
    /\ tasks' = <<>>
    /\ ci' = 1
    /\ processed_chunks' = <<>>
    /\ UNCHANGED <<validators, transformers, object, components, data,
                   seq_locals, exc, chunk_size, chunks, finished, pre, prev,
                   ncalls, added>>

ChunkSizes == {None} \cup (1..MaxRows)

\* A Pipeline object and its callers
Next ==
    \/ \E transformer \in Transformers : add_transformer(transformer)
    \/ \E validator \in Validators : add_validator(validator)
    \/ \E d \in InputTables : process_call(d)
    \/ process_validate
    \/ process_copy
    \/ process_transform
    \/ process_return

Spec == Init /\ [][Next]_vars

\* A ParallelPipeline object, its callers and its workers
NextParallel ==
    \/ \E transformer \in Transformers : add_transformer(transformer)
    \/ \E validator \in Validators : add_validator(validator)
    \/ \E d \in InputTables, size \in ChunkSizes : parallel_call(d, size)
    \/ \E k \in 1..MaxRows : worker_start(k)
    \/ \E k \in 1..MaxRows : worker_finish(k)
    \/ parallel_collect
    \/ parallel_raise
    \/ parallel_return

SpecParallel == InitParallel /\ [][NextParallel]_vars

\* One call of each pipeline, with the scheduling the executor gives: a free
\* worker takes a queued task, a worker whose validators and transformers
\* terminate finishes its chunk, and the caller, blocked in executor.map or
\* in the exit of the with block, goes on when what it waits for is there.
\* process reads nothing of the calls before it, so the first call stands
\* for every call.
first_call(d, size) ==
    /\ ncalls = 0
    /\ parallel_call(d, size)

NextFirstCall ==
    \/ \E transformer \in Transformers : add_transformer(transformer)
    \/ \E validator \in Validators : add_validator(validator)
    \/ \E d \in InputTables, size \in ChunkSizes : first_call(d, size)
    \/ \E k \in 1..MaxRows : worker_start(k)
    \/ \E k \in 1..MaxRows : worker_finish(k)
    \/ parallel_collect
    \/ parallel_raise
    \/ parallel_return

FairParallel ==
    /\ WF_vars(\E k \in 1..MaxRows : worker_start(k))
    /\ WF_vars(\E k \in 1..MaxRows : worker_finish(k))
    /\ WF_vars(parallel_collect)
    /\ WF_vars(parallel_raise)
    /\ WF_vars(parallel_return)

SpecParallelFair == InitParallel /\ [][NextFirstCall]_vars /\ FairParallel

\* Either object
SpecBoth == (Init \/ InitParallel) /\ [][Next \/ NextParallel]_vars

\* ------------------- the head of ParallelPipeline.process on longer tables
\* the table of n rows whose row i holds i
NumberedTable(n) == [columns |-> {"value"}, rows |-> [i \in 1..n |-> [value |-> i]]]

ShortTables == {NumberedTable(n) : n \in 0..MaxLen}
LongTables == {NumberedTable(n) : n \in {100, 999, 1000, 1001, 4003, 4004, 8007, 16016}}

\* ParallelPipeline(name, n_jobs) on a host of up to MaxWorkers cpus
InitChunking ==
    /\ InitPipeline
    /\ parallel = TRUE
    /\ \E arg \in {-1, 0} \cup (1..MaxWorkers), cpu_count \in 1..MaxWorkers :
          n_jobs = IF arg > 0 THEN arg ELSE cpu_count

\* process(data, chunk_size) is entered
chunking_call(d, size) ==
    /\ parallel
    /\ pc = "idle"
    /\ data' = d
    /\ chunk_size' = size
    /\ pre' = [Snapshot EXCEPT !.data = d, !.chunk_size = size]
    /\ pc' = "chunking"
    /\ UNCHANGED <<validators, transformers, metadata, object, components, now,
                   seq_locals, chunks, executor, finished, result, prev,
                   ncalls, added, nreturned>>

\* if chunk_size is None: chunk_size = len(data) // (self.n_jobs * 4);
\* chunk_size = max(chunk_size, 1000)
chunking_default ==
    /\ pc = "chunking"
    /\ chunk_size = None
    /\ chunk_size' = ChunkSize(chunk_size, Len(data.rows), n_jobs)
    /\ UNCHANGED <<validators, transformers, metadata, object, components, now,
                   pc, data, seq_locals, chunks, executor, finished, history,
                   added, nreturned>>

\* chunks = [data.iloc[i:i + chunk_size] for i in range(0, len(data), chunk_size)]
chunking_cut ==
    /\ pc = "chunking"
    /\ chunk_size # None
    /\ chunks' = Chunks(data, chunk_size)
    /\ pc' = "cut"
    /\ UNCHANGED <<validators, transformers, metadata, object, components, now,
                   data, seq_locals, chunk_size, executor, finished, history,
                   added, nreturned>>

NextChunking ==
    \/ \E d \in ShortTables, size \in {None} \cup (1..(MaxLen + 1)) : chunking_call(d, size)
    \/ \E d \in LongTables, size \in {None, MinChunkSize} : chunking_call(d, size)
    \/ chunking_default
    \/ chunking_cut

SpecChunking == InitChunking /\ [][NextChunking]_vars

\* ------- FeatureEngineeringTransformer and ParallelFeatureEngineering
\* op.get('window', 3)
DefaultWindow == 3

\* The operation descriptors a caller configures.  window = None: no
\* 'window' key.
OpArithmetic ==
    [type |-> "arithmetic", columns |-> <<"value", "score">>, operation |-> "sum",
     new_column |-> "value_sum", window |-> None]
OpWindow(w) ==
    [type |-> "window", columns |-> <<"value">>, operation |-> "mean",
     new_column |-> "value_ma", window |-> w]
OpInteraction ==
    [type |-> "interaction", columns |-> <<"value", "score">>, operation |-> "product",
     new_column |-> "value_x_score", window |-> None]
OpUnknown ==
    [type |-> "polynomial", columns |-> <<"value">>, operation |-> "square",
     new_column |-> "value_sq", window |-> None]

KnownTypes == {"arithmetic", "window", "interaction"}

Operations ==
    {OpArithmetic, OpInteraction, OpUnknown} \cup {OpWindow(w) : w \in {None} \cup (1..MaxWindow)}

OperationLists == SeqsUpTo(Operations, MaxOps)

\* The tables the transformers are given: row i holds 10*i or NaN in 'value';
\* with or without a column 'score' of 2s.
RECURSIVE Marks(_)
Marks(n) ==
    IF n = 0 THEN {<<>>}
    ELSE {Append(m, b) : m \in Marks(n - 1), b \in BOOLEAN}

SeriesUpTo(n) ==
    {[i \in DOMAIN m |-> IF m[i] THEN 10 * i ELSE NA] : m \in UNION {Marks(k) : k \in 0..n}}

FeatureTables ==
    {[columns |-> {"value"}, rows |-> [i \in DOMAIN vs |-> [value |-> vs[i]]]]
        : vs \in SeriesUpTo(MaxFeatureRows)}
    \cup
    {[columns |-> {"value", "score"},
      rows |-> [i \in DOMAIN vs |-> [value |-> vs[i], score |-> 2]]]
        : vs \in SeriesUpTo(MaxFeatureRows)}

\* df[name] = cells: the column is added, or replaced when it is there
SetColumn(t, name, cells) ==
    [columns |-> t.columns \cup {name},
     rows |-> [i \in DOMAIN t.rows |->
                 [c \in t.columns \cup {name} |->
                     IF c = name THEN cells[i] ELSE t.rows[i][c]]]]

\* the first of the columns cols that the table lacks (0: none)
FirstMissing(t, cols) ==
    IF \E k \in DOMAIN cols : cols[k] \notin t.columns
    THEN CHOOSE k \in DOMAIN cols :
            cols[k] \notin t.columns /\ \A j \in 1..(k - 1) : cols[j] \in t.columns
    ELSE 0

\* sum(axis=1) of a row over the columns cols: NaN is skipped
RECURSIVE RowSum(_, _)
RowSum(r, cols) ==
    IF cols = <<>> THEN 0
    ELSE (IF r[Head(cols)] = NA THEN 0 ELSE r[Head(cols)]) + RowSum(r, Tail(cols))

RECURSIVE Sum(_)
Sum(xs) == IF xs = <<>> THEN 0 ELSE Head(xs) + Sum(Tail(xs))

\* the mean of numbers; the series of the tables above keep it whole
Mean(xs) == Sum(xs) \div Len(xs)

\* (mutant) rolling(window=w, min_periods=1).mean(): the window is cut at
\* the start of the series and NaN is skipped
RollingMeanPartial(xs, w) ==
    [i \in DOMAIN xs |->
        LET seen == SelectSeq(SubSeq(xs, Max(1, i - w + 1), i), LAMBDA x : x # NA)
        IN  IF seen = <<>> THEN NA ELSE Mean(seen)]

\* Series.rolling(window=w).agg('mean'): min_periods is the window, so a row
\* has a mean when the w rows ending at it exist and none is NaN
RollingMean(xs, w) ==
    [i \in DOMAIN xs |->
        IF i < w \/ \E j \in (i - w + 1)..i : xs[j] = NA
        THEN NA
        ELSE Mean(SubSeq(xs, i - w + 1, i))]

Column(t, name) == [i \in DOMAIN t.rows |-> t.rows[i][name]]

\* (mutant) the interaction sums its two columns
InteractionSum(op, df) ==
    SetColumn(df, op.new_column,
              [i \in DOMAIN df.rows |->
                  RowSum(df.rows[i], <<op.columns[1], op.columns[2]>>)])

\* df[op['new_column']] = df[op['columns'][0]] * df[op['columns'][1]]
Interaction(op, df) ==
    SetColumn(df, op.new_column,
              [i \in DOMAIN df.rows |->
                  Mul(df.rows[i][op.columns[1]], df.rows[i][op.columns[2]])])

\* One turn of the loop over self.operations: the if/elif chain on
\* op['type'], which has no else branch.
ApplyOperation(op, df) ==
    IF op.type = "arithmetic" THEN
        IF FirstMissing(df, op.columns) # 0
        THEN Raise("KeyError", <<op.columns[FirstMissing(df, op.columns)]>>)
        ELSE Ok(SetColumn(df, op.new_column,
                          [i \in DOMAIN df.rows |-> RowSum(df.rows[i], op.columns)]))
    ELSE IF op.type = "window" THEN
        IF op.columns[1] \notin df.columns
        THEN Raise("KeyError", <<op.columns[1]>>)
        ELSE Ok(SetColumn(df, op.new_column,
                          RollingMean(Column(df, op.columns[1]),
                                      IF op.window = None THEN DefaultWindow
                                      ELSE op.window)))
    ELSE IF op.type = "interaction" THEN
        IF FirstMissing(df, <<op.columns[1], op.columns[2]>>) # 0
        THEN Raise("KeyError",
                   <<op.columns[FirstMissing(df, <<op.columns[1], op.columns[2]>>)]>>)
        ELSE Ok(Interaction(op, df))
    ELSE Ok(df)

RECURSIVE ApplyOperations(_, _)
ApplyOperations(ops, df) ==
    IF ops = <<>> THEN Ok(df)
    ELSE LET out == ApplyOperation(Head(ops), df)
         IN  IF out.ok THEN ApplyOperations(Tail(ops), out.table) ELSE out

\* FeatureEngineeringTransformer.transform
FeatureEngineeringTransform(ops, t) == ApplyOperations(ops, Copy(t))

\* ParallelFeatureEngineering._transform_chunk
TransformChunk(ops, chunk) == ApplyOperations(ops, Copy(chunk))

\* ParallelTransformer.transform: executor.map gives the chunks' results in
\* chunk order and raises the exception of the first chunk that failed.
ParallelTransform(ops, t, size, jobs) ==
    LET cut == Chunks(t, ChunkSize(size, Len(t.rows), jobs))
        outs == [k \in DOMAIN cut |-> TransformChunk(ops, cut[k])]
    IN  IF \E k \in DOMAIN outs : ~outs[k].ok
        THEN outs[CHOOSE k \in DOMAIN outs :
                     ~outs[k].ok /\ \A j \in 1..(k - 1) : outs[j].ok]
        ELSE Concat([k \in DOMAIN outs |-> outs[k].table])

AsResult(out) == IF out.ok THEN Returned(out.table) ELSE Raised(out.error)

\* FeatureEngineeringTransformer(operations), or
\* ParallelFeatureEngineering(operations, n_jobs=MaxJobs): __init__ stores
\* the operations as they are.  n_jobs enters the default chunk size alone,
\* which is MinChunkSize for every table of these lengths.
InitFeature ==
    /\ NoPipeline
    /\ operations \in OperationLists
    /\ NoValidator
    /\ NoProcessor
    /\ NoEncoder
    /\ parallel \in BOOLEAN
    /\ n_jobs = IF parallel THEN MaxJobs ELSE 0

\* FeatureEngineeringTransformer.transform(data); transform keeps nothing
\* from one call to the next, so one call of each object is followed.
fe_transform(d) ==
    /\ ~parallel
    /\ ncalls = 0
    /\ ncalls' = 1
    /\ data' = d
    /\ pre' = [Snapshot EXCEPT !.data = d]
    /\ result' = AsResult(FeatureEngineeringTransform(operations, d))
    /\ UNCHANGED <<validators, transformers, metadata, object, components, now,
                   pc, seq_locals, par_locals, prev, added, nreturned>>

\* ParallelFeatureEngineering.transform(data, chunk_size)
pfe_transform(d, size) ==
    /\ parallel
    /\ ncalls = 0
    /\ ncalls' = 1
    /\ data' = d
    /\ chunk_size' = ChunkSize(size, Len(d.rows), n_jobs)
    /\ chunks' = Chunks(d, chunk_size')
    /\ pre' = [Snapshot EXCEPT !.data = d, !.chunk_size = size]
    /\ result' = AsResult(ParallelTransform(operations, d, size, n_jobs))
    /\ UNCHANGED <<validators, transformers, metadata, object, components, now,
                   pc, seq_locals, executor, finished, prev, added, nreturned>>

NextFeature ==
    \/ \E d \in FeatureTables : fe_transform(d)
    \/ \E d \in FeatureTables, size \in {None} \cup (1..MaxFeatureRows) :
          pfe_transform(d, size)

SpecFeature == InitFeature /\ [][NextFeature]_vars

\* ------------------------------- the validators of src/src/validators
\* The validator objects, named by their class, each with one configuration:
\*   ColumnExistenceValidator(['value', 'score'])
\*   DataTypeValidator({'value': 'int64'})
\*   ValueRangeValidator({'value': {'min': 1, 'max': 1}})
\*   UniqueValidator(['value'])
\*   StatisticalValidator([{'column': 'value', 'type': 'mean',
\*                          'min_value': 1, 'max_value': 1}])
\*   CorrelationValidator([{'column1': 'value', 'column2': 'score', 'min_corr': 0}])
\*   CompletionRateValidator({'value': 0.5})
\*   CardinalityValidator({'value': {'min_unique': 1, 'max_unique': 1}})
\*   PatternValidator({'code': '[a-z][0-9]'})
VDataType == "DataTypeValidator"
VUnique == "UniqueValidator"
VStatistical == "StatisticalValidator"
VCorrelation == "CorrelationValidator"
VCompletionRate == "CompletionRateValidator"
VCardinality == "CardinalityValidator"
VPattern == "PatternValidator"

DataQualityValidators == {VCols, VDataType, VRange, VUnique}
AdvancedValidators == {VStatistical, VCorrelation, VCompletionRate, VCardinality, VPattern}

\* the columns the configuration of the object names
ConfiguredColumns(v) ==
    IF v \in {VCols, VCorrelation} THEN {"value", "score"}
    ELSE IF v = VPattern THEN {"code"}
    ELSE {"value"}

\* A missing cell of a column of strings
NaText == "NaN"
Texts == {"a1", "bb", NaText}
\* the strings that match '[a-z][0-9]'
Matching == {"a1"}

\* The tables the validators are given, built as pd.DataFrame({...}) from
\* lists: 'value' alone, 'value' with 'score', or 'code' alone.
QualityTables ==
    {[columns |-> {"value"}, rows |-> [i \in DOMAIN vs |-> [value |-> vs[i]]]]
        : vs \in SeqsUpTo(Values, MaxQualityRows)}
    \cup
    {[columns |-> {"value", "score"}, rows |-> rs]
        : rs \in SeqsUpTo([value : Values, score : {1, 2}], MaxQualityRows)}
    \cup
    {[columns |-> {"code"}, rows |-> [i \in DOMAIN cs |-> [code |-> cs[i]]]]
        : cs \in SeqsUpTo(Texts, MaxQualityRows)}

Answer(b) == [ok |-> TRUE, value |-> b]
KeyError(column) == Raise("KeyError", <<column>>)

\* str(data[column].dtype) of a numeric column built from a list: object
\* when the list is empty, float64 when it holds NaN, int64 otherwise
Dtype(t, column) ==
    IF t.rows = <<>> THEN "object"
    ELSE IF \E i \in DOMAIN t.rows : t.rows[i][column] = NA THEN "float64"
    ELSE "int64"

\* DataTypeValidator.validate
DataTypeValidate(t) ==
    IF "value" \notin t.columns THEN FALSE
    ELSE IF Dtype(t, "value") # "int64" THEN FALSE
    ELSE TRUE

\* UniqueValidator.validate: duplicated() takes two NaN for duplicates
UniqueValidate(t) ==
    IF "value" \notin t.columns THEN FALSE
    ELSE IF \E i, j \in DOMAIN t.rows : i # j /\ t.rows[i].value = t.rows[j].value
         THEN FALSE
    ELSE TRUE

\* the cells of a column that hold a value
Present(t, column) == SelectSeq(Column(t, column), LAMBDA x : x # NA)

\* StatisticalValidator.validate: data[column] raises KeyError for a column
\* that is absent; mean() skips NaN and is NaN when nothing is left, and a
\* comparison with NaN is False.  mean < 1 and mean > 1 are compared as
\* sum < count and sum > count.
StatisticalValidate(t) ==
    IF "value" \notin t.columns THEN KeyError("value")
    ELSE LET xs == Present(t, "value")
         IN  IF xs # <<>> /\ (Sum(xs) < Len(xs) \/ Sum(xs) > Len(xs))
             THEN Answer(FALSE)
             ELSE Answer(TRUE)

\* n * sum(x*y) - sum(x) * sum(y) over the rows where both cells hold a
\* value: the sign of the covariance, which is the sign of Series.corr
Covariance(t, a, b) ==
    LET both == SelectSeq(t.rows, LAMBDA r : r[a] # NA /\ r[b] # NA)
        xs == [i \in DOMAIN both |-> both[i][a]]
        ys == [i \in DOMAIN both |-> both[i][b]]
        xy == [i \in DOMAIN both |-> both[i][a] * both[i][b]]
    IN  Len(both) * Sum(xy) - Sum(xs) * Sum(ys)

\* a column is constant over the rows where both cells hold a value: corr
\* is NaN
Constant(t, a, b) ==
    LET both == SelectSeq(t.rows, LAMBDA r : r[a] # NA /\ r[b] # NA)
    IN  \/ \A i, j \in DOMAIN both : both[i][a] = both[j][a]
        \/ \A i, j \in DOMAIN both : both[i][b] = both[j][b]

\* CorrelationValidator.validate
CorrelationValidate(t) ==
    IF "value" \notin t.columns THEN KeyError("value")
    ELSE IF "score" \notin t.columns THEN KeyError("score")
    ELSE IF ~Constant(t, "value", "score") /\ Covariance(t, "value", "score") < 0
         THEN Answer(FALSE)
    ELSE Answer(TRUE)

\* CompletionRateValidator.validate: 1 - isna().sum() / len(data) < 0.5;
\* on a table of no rows the rate is NaN and the comparison False
CompletionRateValidate(t) ==
    IF "value" \notin t.columns THEN KeyError("value")
    ELSE IF t.rows # <<>> /\ 2 * Len(Present(t, "value")) < Len(t.rows)
         THEN Answer(FALSE)
    ELSE Answer(TRUE)

\* CardinalityValidator.validate: nunique() does not count NaN
CardinalityValidate(t) ==
    IF "value" \notin t.columns THEN KeyError("value")
    ELSE LET unique_count == Cardinality(Range(Present(t, "value")))
         IN  IF unique_count < 1 \/ unique_count > 1
             THEN Answer(FALSE)
             ELSE Answer(TRUE)

\* PatternValidator.validate: .str is refused on a column that holds
\* nothing but NaN (a float64 column); match gives NaN for NaN, which all()
\* skips
PatternValidate(t) ==
    IF "code" \notin t.columns THEN KeyError("code")
    ELSE IF t.rows # <<>> /\ \A i \in DOMAIN t.rows : t.rows[i].code = NaText
         THEN Raise("AttributeError", <<"Can only use .str accessor with string values">>)
    ELSE IF \E i \in DOMAIN t.rows :
                t.rows[i].code # NaText /\ t.rows[i].code \notin Matching
         THEN Answer(FALSE)
    ELSE Answer(TRUE)

\* validator.validate(data), dispatched on the object: what it returns or
\* raises
QualityValidate(v, t) ==
    IF v = VCols THEN Answer(\A col \in {"value", "score"} : col \in t.columns)
    ELSE IF v = VDataType THEN Answer(DataTypeValidate(t))
    ELSE IF v = VRange THEN Answer(ValueRangeValidate(t))
    ELSE IF v = VUnique THEN Answer(UniqueValidate(t))
    ELSE IF v = VStatistical THEN StatisticalValidate(t)
    ELSE IF v = VCorrelation THEN CorrelationValidate(t)
    ELSE IF v = VCompletionRate THEN CompletionRateValidate(t)
    ELSE IF v = VCardinality THEN CardinalityValidate(t)
    ELSE PatternValidate(t)

Answered(b) == [kind |-> "returned", value |-> b]

\* One of the validator objects is constructed.
InitValidators ==
    /\ NoPipeline
    /\ parallel = FALSE
    /\ n_jobs = 0
    /\ operations = <<>>
    /\ subject \in DataQualityValidators \cup AdvancedValidators
    /\ verdict = NoResult
    /\ NoProcessor
    /\ NoEncoder

\* validator.validate(data); validate keeps nothing from one call to the
\* next, so one call of each object is followed.
quality_validate(t) ==
    /\ subject # "none"
    /\ verdict = NoResult
    /\ data' = t
    /\ verdict' = LET out == QualityValidate(subject, t)
                  IN  IF out.ok THEN Answered(out.value) ELSE Raised(out.error)
    /\ UNCHANGED <<validators, transformers, metadata, object, operations, subject,
                   processor, encoder, now, pc, seq_locals, par_locals, history,
                   added, nreturned>>

NextValidators == \E t \in QualityTables : quality_validate(t)

SpecValidators == InitValidators /\ [][NextValidators]_vars

\* ------------------------------------------------------- DataProcessor
\* The lines of text a file holds, and what the NLTK functions make of them
Lines == {"the cats", "dogs", NaText}

\* word_tokenize(str(x)) if pd.notna(x) else []
WordTokenize(x) ==
    IF x = NaText THEN <<>>
    ELSE IF x = "the cats" THEN <<"the", "cats">>
    ELSE <<x>>

\* stopwords.words('english')
StopWords == {"the"}

\* WordNetLemmatizer().lemmatize(word)
Lemmatize(word) ==
    IF word = "cats" THEN "cat" ELSE IF word = "dogs" THEN "dog" ELSE word

\* The files load_data is pointed at: the table pandas reads from the file,
\* a column 'text' of lines, or a column 'id' and no text.
TextTables ==
    {[columns |-> {"text"}, rows |-> [i \in DOMAIN ls |-> [text |-> ls[i]]]]
        : ls \in SeqsUpTo(Lines, MaxTextRows)}
    \cup {[columns |-> {"id"}, rows |-> <<[id |-> 1]>>]}

SupportedFileTypes == {".csv", ".txt", ".json", ".xlsx"}

Files ==
    [exists : {TRUE}, suffix : {".csv"}, table : TextTables]
    \cup [exists : {TRUE}, suffix : {".pdf"}, table : {NoTable}]
    \cup [exists : {FALSE}, suffix : {".csv"}, table : {NoTable}]

\* SUPPORTED_TRANSFORMATIONS, without 'vectorize' and 'extract_entities'
SupportedTransformations == {"tokenize", "remove_stopwords", "lemmatize"}

\* The 'type' of an entry of the configuration, each with columns = ['text'];
\* None: the entry has no 'type'
ConfigTypes == SupportedTransformations \cup {"stem", "None"}
Configs == SeqsUpTo(ConfigTypes, MaxConfig)

\* TokenizationTransformer(['text']).transform
TokenizationTransform(t) ==
    IF "text" \notin t.columns THEN KeyError("text")
    ELSE Ok(SetColumn(Copy(t), "text_tokens",
                      [i \in DOMAIN t.rows |-> WordTokenize(t.rows[i].text)]))

\* StopwordRemovalTransformer(['text']).transform
StopwordRemovalTransform(t) ==
    IF "text_tokens" \notin t.columns
    THEN Raise("ValueError", <<"Column text_tokens not found. Please tokenize text first.">>)
    ELSE Ok(SetColumn(Copy(t), "text_filtered",
                      [i \in DOMAIN t.rows |->
                          SelectSeq(t.rows[i].text_tokens,
                                    LAMBDA word : word \notin StopWords)]))

\* LemmatizationTransformer(['text']).transform
LemmatizationTransform(t) ==
    IF "text_filtered" \notin t.columns
    THEN Raise("ValueError", <<"Column text_filtered not found. Please remove stopwords first.">>)
    ELSE Ok(SetColumn(Copy(t), "text_lemmatized",
                      [i \in DOMAIN t.rows |->
                          [j \in DOMAIN t.rows[i].text_filtered |->
                              Lemmatize(t.rows[i].text_filtered[j])]]))

\* transformer.transform(result), dispatched on the object
TextTransform(tr, t) ==
    IF tr = "tokenize" THEN TokenizationTransform(t)
    ELSE IF tr = "remove_stopwords" THEN StopwordRemovalTransform(t)
    ELSE LemmatizationTransform(t)

\* the loop of process_data
RECURSIVE TextApplyAll(_, _)
TextApplyAll(trs, t) ==
    IF trs = <<>> THEN Ok(t)
    ELSE LET out == TextTransform(Head(trs), t)
         IN  IF out.ok THEN TextApplyAll(Tail(trs), out.table) ELSE out

Loaded(t) == [loaded |-> TRUE, table |-> t]
Written(t) == [kind |-> "written", table |-> t]

\* DataProcessor()
InitProcessor ==
    /\ NoPipeline
    /\ parallel = FALSE
    /\ n_jobs = 0
    /\ operations = <<>>
    /\ NoValidator
    /\ NoProcessor
    /\ NoEncoder

\* load_data(file_path): a file that is missing or of an unsupported type
\* raises and leaves self.data; what process_data returned and save_results
\* wrote for the table before is no longer followed.
load_data(file) ==
    /\ IF file.exists /\ file.suffix \in SupportedFileTypes
       THEN self_data' = Loaded(file.table)
       ELSE UNCHANGED self_data
    /\ result' = NoResult
    /\ written' = NoResult
    /\ UNCHANGED <<validators, transformers, metadata, object, operations, subject,
                   verdict, self_transformers, encoder, now, pc, data, seq_locals,
                   par_locals, pre, prev, ncalls, added, nreturned>>

\* the entries of the configuration before the first that has no type or
\* an unsupported one: the transformers appended before the ValueError
RECURSIVE Accepted(_)
Accepted(config) ==
    IF config = <<>> \/ Head(config) \notin SupportedTransformations THEN <<>>
    ELSE <<Head(config)>> \o Accepted(Tail(config))

\* configure_transformations(config)
configure_transformations(config) ==
    /\ self_transformers' = Accepted(config)
    /\ result' = NoResult
    /\ written' = NoResult
    /\ UNCHANGED <<validators, transformers, metadata, object, operations, subject,
                   verdict, self_data, encoder, now, pc, data, seq_locals,
                   par_locals, pre, prev, ncalls, added, nreturned>>

\* process_data(): the result is returned, self.data is not assigned
process_data ==
    /\ result = NoResult
    /\ result' = AsResult(
          IF ~self_data.loaded
          THEN Raise("ValueError", <<"No data loaded. Call load_data() first.">>)
          ELSE IF self_transformers = <<>>
          THEN Raise("ValueError", <<"No transformations configured. Call configure_transformations() first.">>)
          ELSE TextApplyAll(self_transformers, Copy(self_data.table)))
    /\ written' = NoResult
    /\ UNCHANGED <<validators, transformers, metadata, object, operations, subject,
                   verdict, self_data, self_transformers, encoder, now, pc, data,
                   seq_locals,
                   par_locals, pre, prev, ncalls, added, nreturned>>

\* save_results(output_path, format)
save_results(format) ==
    /\ written = NoResult
    /\ written' = IF ~self_data.loaded
                  THEN Raised([type |-> "ValueError",
                               msg |-> <<"No data to save. Process data first.">>])
                  ELSE IF format \notin {"csv", "json", "xlsx"}
                  THEN Raised([type |-> "ValueError",
                               msg |-> <<"Unsupported output format. Use 'csv', 'json', or 'xlsx'">>])
                  ELSE Written(self_data.table)
    /\ UNCHANGED <<validators, transformers, metadata, object, operations, subject,
                   verdict, self_data, self_transformers, encoder, now, pc, data,
                   seq_locals,
                   par_locals, history, added, nreturned>>

NextProcessor ==
    \/ \E file \in Files : load_data(file)
    \/ \E config \in Configs : configure_transformations(config)
    \/ process_data
    \/ \E format \in {"csv", "parquet"} : save_results(format)

SpecProcessor == InitProcessor /\ [][NextProcessor]_vars

\* ------------- CategoryEncoderTransformer in a ParallelPipeline's workers
TEncoder == "CategoryEncoderTransformer"

\* The tables: a column 'value' of the categories 10 and 20, or a column
\* 'score' and no 'value'.
Categories == {10, 20}
EncoderTables ==
    {[columns |-> {"value"}, rows |-> [i \in DOMAIN vs |-> [value |-> vs[i]]]]
        : vs \in SeqsUpTo(Categories, MaxEncoderRows)}
    \cup {[columns |-> {"score"}, rows |-> <<[score |-> 2]>>]}

\* Series.unique(): the values in the order they first appear
RECURSIVE Unique(_)
Unique(xs) ==
    IF xs = <<>> THEN <<>>
    ELSE LET before == Unique(SubSeq(xs, 1, Len(xs) - 1))
         IN  IF xs[Len(xs)] \in Range(before) THEN before
             ELSE Append(before, xs[Len(xs)])

\* {val: idx for idx, val in enumerate(df[column].unique())}, kept as the
\* sequence of the values: idx is the position less one
Fit(xs) == [fitted |-> TRUE, values |-> Unique(xs)]
NotFitted == [fitted |-> FALSE]

\* Series.map(mapping): a value the mapping lacks gives NaN
Map(xs, mapping) ==
    [i \in DOMAIN xs |->
        IF xs[i] \in Range(mapping.values)
        THEN (CHOOSE idx \in DOMAIN mapping.values : mapping.values[idx] = xs[i]) - 1
        ELSE NA]

\* CategoryEncoderTransformer({'value': 'label'}).transform of a new object
\* on the chunk alone
EncodeAlone(chunk) ==
    IF "value" \notin chunk.columns THEN KeyError("value")
    ELSE Ok(SetColumn(Copy(chunk), "value",
                      Map(Column(chunk, "value"), Fit(Column(chunk, "value")))))

\* The object transform works on: with threads the registered object, with
\* processes the copy of the pipeline that is unpickled with the task.
Owner(k) == IF backend = "thread" THEN 0 ELSE k

\* ParallelPipeline(name, n_jobs, backend) with
\* add_transformer(CategoryEncoderTransformer({'value': 'label'}))
InitEncoder ==
    /\ NoPipeline
    /\ parallel = TRUE
    /\ \E arg \in {-1} \cup (1..MaxJobs), cpu_count \in 1..MaxJobs :
          n_jobs = IF arg > 0 THEN arg ELSE cpu_count
    /\ operations = <<>>
    /\ NoValidator
    /\ NoProcessor
    /\ backend \in {"process", "thread"}
    /\ encoders = [o \in 0..MaxEncoderRows |-> NotFitted]
    /\ worker_pc = [k \in 1..MaxEncoderRows |-> "check"]

\* add_transformer(encoder), once
encoder_register ==
    /\ transformers = <<>>
    /\ add_transformer(TEncoder)

\* process(data, chunk_size); one call of each pipeline is followed
encoder_call(d, size) ==
    /\ transformers = <<TEncoder>>
    /\ ncalls = 0
    /\ parallel_call(d, size)

\* The worker of chunk k has copied its chunk and entered transform:
\* if column not in self.encoders
encoder_check(k) ==
    /\ pc \in {"collect", "shutdown"}
    /\ k \in DOMAIN tasks
    /\ tasks[k] = Running
    /\ worker_pc[k] = "check"
    /\ worker_pc' = [worker_pc EXCEPT ![k] =
                        IF encoders[Owner(k)].fitted THEN "map" ELSE "fit"]
    /\ UNCHANGED <<validators, transformers, metadata, object, operations, quality,
                   processor, backend, encoders, now, pc, data, seq_locals,
                   par_locals, history, added, nreturned>>

\* self.encoders[column] = {val: idx for idx, val in enumerate(df[column].unique())}
encoder_fit(k) ==
    /\ pc \in {"collect", "shutdown"}
    /\ k \in DOMAIN tasks
    /\ tasks[k] = Running
    /\ worker_pc[k] = "fit"
    /\ IF "value" \notin chunks[k].columns
       THEN /\ tasks' = [tasks EXCEPT ![k] = Done(KeyError("value"))]
            /\ finished' = Append(finished, k)
            /\ worker_pc' = [worker_pc EXCEPT ![k] = "done"]
            /\ UNCHANGED encoders
       ELSE /\ encoders' = [encoders EXCEPT ![Owner(k)] = Fit(Column(chunks[k], "value"))]
            /\ worker_pc' = [worker_pc EXCEPT ![k] = "map"]
            /\ UNCHANGED <<tasks, finished>>
    /\ UNCHANGED <<validators, transformers, metadata, object, operations, quality,
                   processor, backend, now, pc, data, seq_locals, chunk_size,
                   chunks, ci, processed_chunks, exc, history, added, nreturned>>

\* df[column] = df[column].map(self.encoders[column]); return df
encoder_map(k) ==
    /\ pc \in {"collect", "shutdown"}
    /\ k \in DOMAIN tasks
    /\ tasks[k] = Running
    /\ worker_pc[k] = "map"
    /\ tasks' = [tasks EXCEPT ![k] = Done(
          IF "value" \notin chunks[k].columns THEN KeyError("value")
          ELSE Ok(SetColumn(Copy(chunks[k]), "value",
                            Map(Column(chunks[k], "value"), encoders[Owner(k)]))))]
    /\ finished' = Append(finished, k)
    /\ worker_pc' = [worker_pc EXCEPT ![k] = "done"]
    /\ UNCHANGED <<validators, transformers, metadata, object, operations, quality,
                   processor, backend, encoders, now, pc, data, seq_locals,
                   chunk_size, chunks, ci, processed_chunks, exc, history, added,
                   nreturned>>

NextEncoder ==
    \/ encoder_register
    \/ \E d \in EncoderTables, size \in {None} \cup (1..MaxEncoderRows) : encoder_call(d, size)
    \/ \E k \in 1..MaxEncoderRows : worker_start(k)
    \/ \E k \in 1..MaxEncoderRows : encoder_check(k)
    \/ \E k \in 1..MaxEncoderRows : encoder_fit(k)
    \/ \E k \in 1..MaxEncoderRows : encoder_map(k)
    \/ parallel_collect
    \/ parallel_raise
    \/ parallel_return

SpecEncoder == InitEncoder /\ [][NextEncoder]_vars

\* ----------------------------------------------------------------- claims
IsPrefix(a, b) == Len(a) <= Len(b) /\ SubSeq(b, 1, Len(a)) = a
Last(s) == s[Len(s)]
TransformCalls == SelectSeq(calls, LAMBDA c : c.op = "transform")
\* the last call has ended and result is what it gave
Ended == pc = "idle" /\ result.kind # "none"

\* C1: in Pipeline.process the validators are invoked in registration order,
\* each on the caller's table; every validator has been invoked before the
\* first transformer is, so that no validator is given a transformer's output,
\* and a call that returns has invoked all of them.
C1_ValidatorsFirstOnInput ==
    /\ \A i \in DOMAIN calls : calls[i].op = "validate" =>
          /\ i <= Len(pre.validators)
          /\ calls[i].obj = pre.validators[i]
          /\ calls[i].arg = data
    /\ \A i \in DOMAIN calls : calls[i].op = "transform" =>
          /\ i > Len(pre.validators)
          /\ \A j \in 1..Len(pre.validators) : calls[j].op = "validate"
    /\ (Ended /\ result.kind = "returned") =>
          /\ Len(calls) >= Len(pre.validators)
          /\ \A j \in 1..Len(pre.validators) : calls[j].op = "validate"

\* two different validators have passed and a transformer has changed the table
C1_Witness ==
    /\ pc = "transform"
    /\ Len(validators) >= 2
    /\ validators[1] # validators[2]
    /\ ti > 1
    /\ processed_data # data

\* C2: when the first validator of the list that rejects the table is the
\* k-th (k = 2: V1 passes, V2 fails), process raises the validation failure
\* naming the class of that validator, has invoked the validators 1..k and
\* nothing else, returns no table and leaves the metadata as it was.
C2_FailFast ==
    Ended =>
        \A k \in DOMAIN pre.validators :
            (/\ ~Validate(pre.validators[k], data)
             /\ \A j \in 1..(k - 1) : Validate(pre.validators[j], data))
            =>
            /\ result = Raised([type |-> "ValueError",
                                msg |-> <<"Data validation failed",
                                          ClassName(pre.validators[k])>>])
            /\ Len(calls) = k
            /\ \A i \in 1..k : calls[i].op = "validate" /\ calls[i].obj = pre.validators[i]
            /\ metadata = pre.metadata

\* V1 passed, V2 failed, a third validator and a transformer were registered
C2_Witness ==
    /\ Ended
    /\ result.kind = "raised"
    /\ Len(pre.validators) = 3
    /\ Len(pre.transformers) >= 1
    /\ Len(calls) = 2
    /\ pre.metadata.runs = 1

\* C3: a call that returns has invoked each registered transformer once, in
\* registration order, the first on a copy of the input and each next one on
\* the table the one before returned, and returns what the last one returned.
C3_TransformersChained ==
    (Ended /\ result.kind = "returned") =>
        LET trs == pre.transformers
            tc == TransformCalls
            n == Len(trs)
        IN  /\ Len(tc) = n
            /\ \A i \in 1..n : tc[i].obj = trs[i]
            /\ n >= 1 => tc[1].arg = data
            /\ \A i \in 2..n : Ok(tc[i].arg) = Transform(trs[i - 1], tc[i - 1].arg)
            /\ result.table = IF n = 0 THEN data ELSE Transform(trs[n], tc[n].arg).table

\* two different transformers ran and each changed the table
C3_Witness ==
    /\ Ended
    /\ result.kind = "returned"
    /\ Len(TransformCalls) = 2
    /\ TransformCalls[1].obj # TransformCalls[2].obj
    /\ TransformCalls[2].arg # data
    /\ result.table # TransformCalls[2].arg

\* C4: the metadata is as the call found it for as long as the call runs; a
\* call that has returned a table has invoked every transformer, counted runs
\* up by exactly 1 and set last_run.
C4_MetadataOnReturn ==
    /\ pc # "idle" => metadata = pre.metadata
    /\ (Ended /\ result.kind = "returned") =>
          /\ Len(TransformCalls) = Len(pre.transformers)
          /\ metadata.runs = pre.metadata.runs + 1
          /\ metadata.last_run # None
          /\ metadata.created_at = pre.metadata.created_at

\* the second returning call of a pipeline with two transformers
C4_Witness ==
    /\ Ended
    /\ result.kind = "returned"
    /\ Len(pre.transformers) = 2
    /\ metadata.runs = 2

\* C5: a transformer that raises is the last thing the call invokes: the call
\* has ended, what the transformer raised is what the caller gets in place of
\* a table, and the metadata is as the call found it.
C5_TransformerRaiseAborts ==
    \A i \in DOMAIN calls :
        (calls[i].op = "transform" /\ ~Transform(calls[i].obj, calls[i].arg).ok) =>
            /\ i = Len(calls)
            /\ pc = "idle"
            /\ result = Raised(Transform(calls[i].obj, calls[i].arg).error)
            /\ metadata = pre.metadata

\* the first of two transformers raised, after a call that had returned
C5_Witness ==
    /\ Ended
    /\ result.kind = "raised"
    /\ Len(TransformCalls) = 1
    /\ Len(pre.transformers) = 2
    /\ pre.metadata.runs = 1

\* the second of two transformers raised
C5_WitnessSecond ==
    /\ Ended
    /\ result.kind = "raised"
    /\ Len(TransformCalls) = 2

\* C6 (as claimed): what reaches the caller when a transformer fails names
\* the failing transformer and, for a ParallelPipeline, the index of the
\* failing chunk.
C6_ErrorNamesTransformer ==
    /\ \A i \in DOMAIN calls :
          (calls[i].op = "transform" /\ ~Transform(calls[i].obj, calls[i].arg).ok /\ Ended)
          => ClassName(calls[i].obj) \in Range(result.error.msg)
    /\ (pc = "shutdown" /\ exc.type = "KeyError")
          => /\ \E k \in DOMAIN pre.transformers :
                   ClassName(pre.transformers[k]) \in Range(exc.msg)
             /\ ToString(ci - 1) \in Range(exc.msg) \/ ToString(ci) \in Range(exc.msg)

\* C7: a Pipeline with no validator and no transformer returns a table equal
\* to its input, the table of no rows included, and counts runs up by 1.
C7_EmptyPipelineIdentity ==
    (Ended /\ pre.validators = <<>> /\ pre.transformers = <<>>) =>
        /\ result = Returned(data)
        /\ metadata.runs = pre.metadata.runs + 1

\* the empty pipeline has processed the table of no rows
C7_Witness ==
    /\ Ended
    /\ pre.validators = <<>>
    /\ pre.transformers = <<>>
    /\ data.rows = <<>>
    /\ data.columns = {"value", "score"}
    /\ result.kind = "returned"

\* C8: with no transformer registered, two calls in a row on the same table
\* that both pass validation return equal tables, each equal to the input,
\* and each of the two counts runs up by 1.
C8_ValidatorOnlyTwice ==
    (/\ Ended
     /\ pre.transformers = <<>>
     /\ prev.result.kind = "returned"
     /\ result.kind = "returned")
    =>
    /\ result.table = prev.result.table
    /\ result.table = data
    /\ pre.metadata.runs = prev.pre.metadata.runs + 1
    /\ metadata.runs = pre.metadata.runs + 1

\* two validators, no transformer, a table of two rows processed twice
C8_Witness ==
    /\ Ended
    /\ pre.transformers = <<>>
    /\ prev.result.kind = "returned"
    /\ Len(prev.pre.validators) >= 2
    /\ result.kind = "returned"
    /\ Len(data.rows) = 2

\* C9: each list is the sequence of the arguments of its add calls, in call
\* order, duplicates kept; a call that returns has invoked the registered
\* objects position by position, so an object registered k times k times.
C9_AppendNoDedup ==
    /\ validators = added_v
    /\ transformers = added_t
    /\ (Ended /\ result.kind = "returned") =>
          [i \in DOMAIN calls |-> calls[i].obj] = pre.validators \o pre.transformers

\* a validator and a transformer registered twice each, both runs of the
\* transformer showing in the table returned
C9_Witness ==
    /\ Ended
    /\ result.kind = "returned"
    /\ Len(pre.validators) >= 2
    /\ pre.validators[1] = pre.validators[2]
    /\ pre.transformers = <<TInteract, TInteract>>
    /\ data.rows # <<>>
    /\ result.table # Transform(TInteract, data).table
    /\ result.table # data

\* C10: every step keeps each list as a prefix of what it becomes; a step of
\* add_validator appends its argument to the validators and leaves the
\* transformers and the metadata alone, a step of add_transformer likewise;
\* no other step changes a list, and the steps of process, of either kind,
\* change neither list.
C10_Frame ==
    [][/\ IsPrefix(validators, validators')
       /\ IsPrefix(transformers, transformers')
       /\ added_v' # added_v =>
             /\ validators' = Append(validators, Last(added_v'))
             /\ UNCHANGED <<transformers, metadata>>
       /\ added_t' # added_t =>
             /\ transformers' = Append(transformers, Last(added_t'))
             /\ UNCHANGED <<validators, metadata>>
       /\ added_v' = added_v => validators' = validators
       /\ added_t' = added_t => transformers' = transformers
       /\ (pc # "idle" \/ pc' # "idle") => UNCHANGED <<validators, transformers>>
       /\ metadata' # metadata => pc # "idle"
      ]_vars

\* a ParallelPipeline with validators and transformers in place, after a call
\* that returned, a call that raised and a registration
C10_Witness ==
    /\ parallel
    /\ pc = "idle"
    /\ ncalls = 2
    /\ metadata.runs = 1
    /\ result.kind = "none"
    /\ Len(validators) >= 2
    /\ Len(transformers) >= 1

\* C12: in every state the run counter is the number of process calls that
\* have returned a table so far, last_run is empty exactly when the counter is
\* 0, and a call that has raised has left the whole metadata record as it
\* found it; no step lowers the counter or changes created_at.
C12_MetadataAtomic ==
    /\ [](/\ metadata.runs = nreturned
          /\ (metadata.last_run = None) <=> (metadata.runs = 0)
          /\ (Ended /\ result.kind = "raised") => metadata = pre.metadata)
    /\ [][/\ metadata'.runs >= metadata.runs
          /\ metadata'.created_at = metadata.created_at]_vars

\* a call has raised after another had returned, in a ParallelPipeline of more
\* than one chunk
C12_Witness ==
    /\ parallel
    /\ Ended
    /\ result.kind = "raised"
    /\ nreturned = 1
    /\ ncalls = 2
    /\ metadata.chunks_processed = 2

Sequential(vs, trs, t) == ProcessChunk(vs, trs, t)

\* C13 (as claimed): for every table, the table of no rows included, and
\* every chunk size, when Pipeline.process returns a table on the input
\* ParallelPipeline.process returns a table of the same rows in the same order.
C13_ParallelEqualsSequential ==
    (parallel /\ Ended /\ Sequential(pre.validators, pre.transformers, data).ok) =>
        /\ result.kind = "returned"
        /\ result.table.rows = Sequential(pre.validators, pre.transformers, data).table.rows

\* what the worker of each chunk of the last call gives, in chunk order
ChunkResults ==
    [k \in DOMAIN chunks |-> ProcessChunk(pre.validators, pre.transformers, chunks[k])]

\* C14: whatever the order in which the workers completed, the table
\* ParallelPipeline.process returns is the concatenation of the processed
\* chunks by ascending chunk index; with no transformer registered its rows are
\* the input rows in their order.
C14_ChunkOrderNotCompletionOrder ==
    (parallel /\ Ended /\ result.kind = "returned") =>
        /\ Range(finished) = DOMAIN chunks
        /\ \A k \in DOMAIN chunks : ChunkResults[k].ok
        /\ result.table = Concat([k \in DOMAIN chunks |-> ChunkResults[k].table]).table
        /\ pre.transformers = <<>> => result.table.rows = data.rows

\* the worker of chunk 2 completed before the worker of chunk 1, the two chunks
\* giving different rows
C14_Witness ==
    /\ parallel
    /\ Ended
    /\ result.kind = "returned"
    /\ finished = <<2, 1>>
    /\ Len(pre.transformers) >= 1
    /\ Len(result.table.rows) = 2
    /\ result.table.rows[1] # result.table.rows[2]

\* C15: with N rows and a chunk size c >= 1 there are ceil(N/c) chunks; chunk
\* k, counted from 0, holds the rows [k*c, min((k+1)*c, N)) of the input in
\* their order, none is empty, every one but the last has c rows, and the
\* chunks one after the other are the input rows, each once.
C15_Partition ==
    pc = "cut" =>
        LET N == Len(data.rows)
            c == chunk_size
        IN  /\ c >= 1
            /\ Len(chunks) = (N + c - 1) \div c
            /\ \A k \in DOMAIN chunks :
                  /\ chunks[k].columns = data.columns
                  /\ chunks[k].rows = SubSeq(data.rows, (k - 1) * c + 1, Min(k * c, N))
                  /\ chunks[k].rows # <<>>
                  /\ k < Len(chunks) => Len(chunks[k].rows) = c
            /\ ConcatRows(chunks, data.columns) = data.rows

\* five rows cut by twos: the last chunk is shorter
C15_Witness ==
    /\ pc = "cut"
    /\ Len(data.rows) = 5
    /\ chunk_size = 2
    /\ Len(chunks) = 3
    /\ Len(chunks[3].rows) = 1

\* C16: the worker count is at least 1; when no chunk size is given the chunks
\* are cut with max(1000, floor(N / (worker count * 4))), which is never below
\* 1000, and a table of 1 to 1000 rows is one chunk, the table itself.
C16_DefaultChunkSize ==
    /\ parallel => n_jobs >= 1
    /\ (pc = "cut" /\ pre.chunk_size = None) =>
          LET N == Len(data.rows)
              w == n_jobs * 4
          IN  /\ chunk_size >= 1000
              /\ chunk_size * w <= N \/ chunk_size = 1000
              /\ (chunk_size + 1) * w > N
              /\ (1 <= N /\ N <= 1000) => chunks = <<data>>

\* 100 rows and 4 workers: one chunk
C16_Witness ==
    /\ pc = "cut"
    /\ pre.chunk_size = None
    /\ Len(data.rows) = 100
    /\ n_jobs = 4
    /\ chunk_size = 1000
    /\ Len(chunks) = 1

\* C17: a ParallelPipeline.process call that has returned has set
\* chunks_processed to the number of chunks its input was cut into, counted
\* runs up by exactly 1 and set last_run; the metadata changes in no other
\* step, so chunks_processed is that of the last call that returned.
C17_ChunksProcessed ==
    /\ []((parallel /\ Ended /\ result.kind = "returned") =>
            LET N == Len(data.rows)
                c == chunk_size
            IN  /\ metadata.chunks_processed = (N + c - 1) \div c
                /\ metadata.chunks_processed = Len(chunks)
                /\ metadata.runs = pre.metadata.runs + 1
                /\ metadata.last_run # None
                /\ metadata.last_run = now - 1)
    /\ [][(parallel /\ metadata' # metadata) =>
              /\ pc = "collect"
              /\ pc' = "idle"
              /\ result'.kind = "returned"
              /\ metadata'.chunks_processed = Len(chunks)]_vars

\* the second returning call of a ParallelPipeline, of one chunk after one of
\* two chunks
C17_Witness ==
    /\ parallel
    /\ Ended
    /\ result.kind = "returned"
    /\ metadata.runs = 2
    /\ pre.metadata.chunks_processed = 2
    /\ metadata.chunks_processed = 1

\* C18: when the validation or the transformation of any one chunk fails, the
\* ParallelPipeline.process call raises: the caller gets no table, whatever
\* the other chunks gave, and the metadata (runs, last_run, chunks_processed)
\* is as the call found it.
C18_ChunkFailureAborts ==
    (parallel /\ Ended /\ \E k \in DOMAIN chunks : ~ChunkResults[k].ok) =>
        /\ result.kind = "raised"
        /\ metadata = pre.metadata

\* the second of two chunks failed and the first did not, after a call that
\* had returned
C18_Witness ==
    /\ parallel
    /\ Ended
    /\ result.kind = "raised"
    /\ Len(chunks) = 2
    /\ ChunkResults[1].ok
    /\ ~ChunkResults[2].ok
    /\ pre.metadata.runs = 1
    /\ finished = <<2, 1>>

\* C19 (as claimed): the error of a ParallelPipeline.process call in which a
\* chunk failed validation names the validator that rejected the chunk and
\* the index of that chunk.
C19_ErrorNamesValidatorAndChunk ==
    (/\ parallel
     /\ Ended
     /\ result.kind = "raised"
     /\ result.error.type = "ValueError"
     /\ Head(result.error.msg) = "Data validation failed")
    =>
    \E k \in DOMAIN chunks :
        /\ FirstRejecting(pre.validators, chunks[k]) # 0
        /\ ClassName(pre.validators[FirstRejecting(pre.validators, chunks[k])])
              \in Range(result.error.msg)
        /\ ToString(k - 1) \in Range(result.error.msg) \/ ToString(k) \in Range(result.error.msg)

\* the chunks of the last call on which _process_chunk raises
FailingChunks == {k \in DOMAIN chunks : ~ChunkResults[k].ok}

\* the first of them, by chunk index
FirstFailing == CHOOSE k \in FailingChunks : \A j \in FailingChunks : k <= j

\* C20: when _process_chunk fails on one or more chunks, what the caller gets
\* is the error of the failing chunk of lowest index, in whatever order the
\* workers completed; once that error is on its way out the chunks not yet
\* started are cancelled, so that none is started any more, and the caller
\* has no result of any chunk.
C20_FirstFailingChunk ==
    /\ (parallel /\ Ended /\ FailingChunks # {}) =>
          result = Raised(ChunkResults[FirstFailing].error)
    /\ pc = "shutdown" =>
          /\ exc = ChunkResults[FirstFailing].error
          /\ ci = FirstFailing
          /\ \A k \in DOMAIN tasks : tasks[k] # Pending
          /\ result = NoResult

\* both chunks failed, with different errors, and the worker of the second
\* completed first
C20_Witness ==
    /\ parallel
    /\ Ended
    /\ finished = <<2, 1>>
    /\ FailingChunks = {1, 2}
    /\ ChunkResults[1].error # ChunkResults[2].error
    /\ result = Raised(ChunkResults[1].error)

\* C21 (as claimed): an object whose operations hold a descriptor of a type
\* other than arithmetic, window and interaction returns no table: its
\* transform raises.
C21_UnknownTypeRaises ==
    (Ended /\ \E k \in DOMAIN operations : operations[k].type \notin KnownTypes) =>
        result.kind = "raised"

\* C22 (as claimed): a window operation with the aggregation mean gives, in
\* every row, the mean of the rows of the window cut at the start of the
\* table, never NaN where the column has values: [10, 15, 25, 35] for
\* [10, 20, 30, 40] and window 2.
C22_WindowMeanPartial ==
    (~parallel /\ Ended /\ result.kind = "returned") =>
        \A k \in DOMAIN operations :
            operations[k].type = "window" =>
                Column(result.table, operations[k].new_column)
                    = RollingMeanPartial(Column(data, operations[k].columns[1]),
                                         IF operations[k].window = None
                                         THEN DefaultWindow ELSE operations[k].window)

\* C23: a transform with an interaction operation on the columns a and b that
\* has returned has given every row, under the new name, the product a*b of
\* that row (NaN where one of them is NaN: value*2 with b the constant 2),
\* and has kept the number of rows, their order and every column of the input.
C23_Interaction ==
    (Ended /\ result.kind = "returned") =>
        \A k \in DOMAIN operations :
            operations[k].type = "interaction" =>
                LET a == operations[k].columns[1]
                    b == operations[k].columns[2]
                    new == operations[k].new_column
                IN  /\ new \in result.table.columns
                    /\ data.columns \subseteq result.table.columns
                    /\ Len(result.table.rows) = Len(data.rows)
                    /\ \A i \in DOMAIN data.rows :
                          /\ \A c \in data.columns :
                                result.table.rows[i][c] = data.rows[i][c]
                          /\ (data.rows[i][a] # NA /\ data.rows[i][b] # NA) =>
                                result.table.rows[i][new] = data.rows[i][a] * data.rows[i][b]
                          /\ (data.rows[i][a] # NA /\ data.rows[i][b] = 2) =>
                                result.table.rows[i][new] = data.rows[i][a] * 2
                          /\ (data.rows[i][a] = NA \/ data.rows[i][b] = NA) =>
                                result.table.rows[i][new] = NA

\* the interaction of value with the column of 2s on four rows, one of them
\* without a value, after a window operation
C23_Witness ==
    /\ ~parallel
    /\ Ended
    /\ result.kind = "returned"
    /\ operations = <<OpWindow(2), OpInteraction>>
    /\ Len(data.rows) = 4
    /\ data.rows[2].value = NA
    /\ result.table.rows[2].value_x_score = NA
    /\ result.table.rows[4].value_x_score = 80

\* C30 (as claimed): ParallelFeatureEngineering.transform gives what
\* FeatureEngineeringTransformer.transform gives with the same operations on
\* the same table, for every chunk size.
C30_ParallelFeatureEqualsSequential ==
    (parallel /\ Ended /\ operations # <<>>) =>
        result = AsResult(FeatureEngineeringTransform(operations, data))

\* C24 (as claimed): a validator given a table that lacks a column its
\* configuration names returns False; it does not raise.
C24_MissingColumnReturnsFalse ==
    (verdict # NoResult /\ ~(ConfiguredColumns(subject) \subseteq data.columns)) =>
        verdict = Answered(FALSE)

\* C25 (as claimed): the table save_results writes after process_data has
\* returned is the table process_data returned.
C25_SavesProcessedData ==
    (result.kind = "returned" /\ written.kind = "written") =>
        written.table = result.table

\* C26 (as claimed): with the thread backend and a label encoder
\* registered, the result of every chunk is the result of a new encoder on
\* that chunk alone, whatever the interleaving of the workers.
C26_NoStateLeaksBetweenChunks ==
    backend = "thread" =>
        \A k \in DOMAIN tasks :
            tasks[k].state = "done" => tasks[k].out = EncodeAlone(chunks[k])

\* C27: while a chunk task of ParallelPipeline.process is pending or running,
\* the metadata record (runs, last_run, chunks_processed) is as the call found
\* it; the record changes only in the step in which the caller returns the
\* table, when every task is done, and so in no step of a worker.
OpenTask == \E k \in DOMAIN tasks : tasks[k].state \in {"pending", "running"}

C27_MetadataWrittenByCaller ==
    /\ [](OpenTask => metadata = pre.metadata)
    /\ [][metadata' # metadata =>
            /\ pc = "collect" /\ pc' = "idle"
            /\ \A k \in DOMAIN tasks : tasks[k].state = "done"
            /\ result'.kind = "returned"]_vars

\* the second call of a pipeline that has run once: one chunk is done, the
\* other still with its worker
C27_Witness ==
    /\ parallel
    /\ ncalls = 2
    /\ pre.metadata.runs = 1
    /\ metadata = pre.metadata
    /\ Len(tasks) = 2
    /\ tasks[1].state = "running"
    /\ tasks[2].state = "done"

\* C28: the worker of a chunk invokes the validators first, in registration
\* order and each on the chunk as it was cut, up to the first that rejects;
\* after a rejection it invokes nothing more, transformer or validator, and
\* the chunk fails naming that validator; when none rejects it then invokes
\* the transformers in registration order, the first on a copy of the chunk
\* and each next one on what the one before returned.
ChunkValidations(k) == SelectSeq(tasks[k].calls, LAMBDA c : c.op = "validate")
ChunkTransforms(k) == SelectSeq(tasks[k].calls, LAMBDA c : c.op = "transform")

C28_ValidatorsBeforeTransformers ==
    \A k \in DOMAIN tasks :
        tasks[k].state = "done" =>
            LET vlog == ChunkValidations(k)
                tlog == ChunkTransforms(k)
            IN  /\ tasks[k].calls = vlog \o tlog
                /\ IsPrefix([i \in DOMAIN vlog |-> vlog[i].obj], validators)
                /\ \A i \in DOMAIN vlog : vlog[i].arg = chunks[k]
                /\ \A i \in DOMAIN vlog :
                      ~Validate(vlog[i].obj, chunks[k]) =>
                          /\ i = Len(vlog)
                          /\ tlog = <<>>
                          /\ ~tasks[k].out.ok
                          /\ tasks[k].out.error.msg
                                = <<"Data validation failed", ClassName(vlog[i].obj)>>
                /\ (\A i \in DOMAIN vlog : Validate(vlog[i].obj, chunks[k])) =>
                      /\ Len(vlog) = Len(validators)
                      /\ IsPrefix([j \in DOMAIN tlog |-> tlog[j].obj], transformers)
                      /\ tlog # <<>> => tlog[1].arg = chunks[k]
                      /\ \A j \in 1..(Len(tlog) - 1) :
                            Transform(tlog[j].obj, tlog[j].arg) = Ok(tlog[j + 1].arg)
                      /\ Len(tlog) < Len(transformers) =>
                            /\ tlog # <<>>
                            /\ tasks[k].out = Transform(Last(tlog).obj, Last(tlog).arg)
                            /\ ~tasks[k].out.ok
                      /\ (Len(tlog) = Len(transformers) /\ tlog # <<>>) =>
                            tasks[k].out = Transform(Last(tlog).obj, Last(tlog).arg)

\* two validators and two transformers: chunk 1 was rejected by the first
\* validator, chunk 2 went through all four
C28_Witness ==
    /\ Len(validators) = 2
    /\ Len(transformers) = 2
    /\ Len(tasks) = 2
    /\ tasks[1].state = "done"
    /\ tasks[2].state = "done"
    /\ Len(tasks[1].calls) = 1
    /\ ~tasks[1].out.ok
    /\ Len(ChunkValidations(2)) = 2
    /\ Len(ChunkTransforms(2)) = 2
    /\ tasks[2].out.ok

\* C29: under fair scheduling every call of ParallelPipeline.process ends,
\* with a table or with an exception raised to the caller; a table is
\* returned only when every chunk has been processed, and a call in which a
\* chunk has failed ends too.
C29_CallTerminates ==
    /\ (pc # "idle") ~> (pc = "idle" /\ result.kind \in {"returned", "raised"})
    /\ (\E k \in DOMAIN tasks : tasks[k].state = "done" /\ ~tasks[k].out.ok)
          ~> (pc = "idle" /\ result.kind = "raised")
    /\ [][(pc # "idle" /\ pc' = "idle" /\ result'.kind = "returned") =>
            /\ Range(finished) = DOMAIN chunks
            /\ \A k \in DOMAIN tasks : tasks[k].state = "done" /\ tasks[k].out.ok]_vars

\* a call on two chunks has ended with the failure of chunk 1; chunk 2 was
\* cancelled in the queue and never processed
C29_Witness ==
    /\ parallel
    /\ pc = "idle"
    /\ result.kind = "raised"
    /\ Len(chunks) = 2
    /\ finished = <<1>>

====
